---- MODULE Spec2Model ----
(***************************************************************************)
(* The sailing reconciliation and delay-cache engine of nextferry          *)
(* (backend/next_sailings.py), as a state machine, with the process that   *)
(* runs it (backend/main.py) and the timestamp parsing of its inputs       *)
(* (backend/utils.py, backend/serializers.py).                             *)
(*                                                                         *)
(* Instants are small integers (1..MaxTime), a delay is the integer        *)
(* difference of two instants.  A Python Optional value is a set: {} for   *)
(* None and {x} for the value x.  A Python dict is a sequence of           *)
(* [key, val] records in insertion order, except CACHED_DELAYS, whose      *)
(* order nothing reads: it is a function.  Terminal and vessel names       *)
(* follow their ids and are left out of the records.                       *)
(***************************************************************************)
EXTENDS Integers, Sequences, FiniteSets, TLC

\* ------------------------------------------------------------- bounds
MaxTime == 2
MaxSlot == 2
MaxVessels == 1
MaxLive == 2
MaxTimes == 2
MaxPolledTimes == 1
MaxCycles == 2
MaxRecords == 2
MaxText == 4

\* ------------------------------------------------------------- values
None == {}
Some(x) == {x}
Val(o) == CHOOSE x \in o : TRUE
Opt(S) == {None} \cup {Some(x) : x \in S}

Times == 1..MaxTime
Instants == 0..MaxTime
Slots == 1..MaxSlot
RouteAbbrevs == {"sea-bi", "ed-king"}
RouteNameLists ==
    {<<>>} \cup {<<a>> : a \in RouteAbbrevs}
           \cup {s \in [1..2 -> RouteAbbrevs] : s[1] # s[2]}

SeqsUpTo(S, n) == UNION {[1..k -> S] : k \in 0..n}
InSeq(x, s) == \E k \in 1..Len(s) : s[k] = x
Front(s) == SubSeq(s, 1, Len(s) - 1)
Last(s) == s[Len(s)]

ROUTES ==
    << [name |-> "Seattle - Bainbridge", terminals |-> <<3, 7>>,
        route_id |-> 5, route_name |-> "sea-bi"] >>

\* A live snapshot as the position source returns it: no delay yet.
Vessel ==
    [vessel_position_num : Slots, route_name : RouteNameLists,
     at_dock : BOOLEAN, left_dock : Opt(Times),
     scheduled_departure : Opt(Times), delay : {None}]

RawDeparture == [scheduled_departure : Opt(Times), vessel_position_num : Slots]

Directions == {<<3, 7>>, <<7, 3>>}

RawDirectionalSchedule ==
    [departing_terminal_id : {3, 7}, arriving_terminal_id : {3, 7},
     times : SeqsUpTo(RawDeparture, MaxTimes)]

\* ------------------------------------------------------------- Python
\* `if vessel_delay:` on an Optional[timedelta]: None and timedelta(0) are falsy.
PyTruthy(o) == o # None /\ Val(o) # 0

\* list.sort / sorted with a key: stable; comparing a None key raises TypeError
\* as soon as there are two elements to compare.
SortRaises(s) == Len(s) >= 2 /\ \E k \in 1..Len(s) : s[k].scheduled_departure = None

InsertByDeparture(sorted, x) ==
    LET k == Cardinality({j \in 1..Len(sorted) :
                 Val(sorted[j].scheduled_departure) <= Val(x.scheduled_departure)})
    IN SubSeq(sorted, 1, k) \o <<x>> \o SubSeq(sorted, k + 1, Len(sorted))

\* The flattened list left in the order the slots were visited.
SortedByDeparture_unsorted(s) == s

RECURSIVE SortedByDeparture(_)
SortedByDeparture(s) ==
    IF Len(s) <= 1 THEN s
    ELSE InsertByDeparture(SortedByDeparture(Front(s)), Last(s))

\* defaultdict(list)[key].append(x) on an insertion-ordered dict.
DictKeys(d) == {d[k].key : k \in 1..Len(d)}
DictGet(d, key) == d[CHOOSE k \in 1..Len(d) : d[k].key = key].val
DictAppend(d, key, x) ==
    IF key \in DictKeys(d)
    THEN [k \in 1..Len(d) |->
             IF d[k].key = key THEN [d[k] EXCEPT !.val = Append(@, x)] ELSE d[k]]
    ELSE Append(d, [key |-> key, val |-> <<x>>])

\* ------------------------------------------------------------- delay cache
\* CACHED_DELAYS[route] = {slot: delay}: the route's dict made anew on every write.
RECURSIVE update_cached_delay_routes_new_dict(_, _, _, _)
update_cached_delay_routes_new_dict(cache, routes, slot, delay) ==
    IF routes = <<>> THEN cache
    ELSE LET route == Head(routes)
             c1 == IF route \in DOMAIN cache THEN cache ELSE cache @@ (route :> <<>>)
             c2 == [c1 EXCEPT ![route] = (slot :> delay)]
         IN update_cached_delay_routes_new_dict(c2, Tail(routes), slot, delay)

\* dict.setdefault for the assignment: a delay already recorded stays.
RECURSIVE update_cached_delay_routes_setdefault(_, _, _, _)
update_cached_delay_routes_setdefault(cache, routes, slot, delay) ==
    IF routes = <<>> THEN cache
    ELSE LET route == Head(routes)
             c1 == IF route \in DOMAIN cache THEN cache ELSE cache @@ (route :> <<>>)
             c2 == [c1 EXCEPT ![route] = c1[route] @@ (slot :> delay)]
         IN update_cached_delay_routes_setdefault(c2, Tail(routes), slot, delay)

RECURSIVE update_cached_delay_routes(_, _, _, _)
update_cached_delay_routes(cache, routes, slot, delay) ==
    IF routes = <<>> THEN cache
    ELSE LET route == Head(routes)
             c1 == IF route \in DOMAIN cache THEN cache ELSE cache @@ (route :> <<>>)
             c2 == [c1 EXCEPT ![route] = (slot :> delay) @@ c1[route]]
         IN update_cached_delay_routes(c2, Tail(routes), slot, delay)

update_cached_delay(cache, vessel, delay) ==
    update_cached_delay_routes(cache, vessel.route_name, vessel.vessel_position_num, delay)

\* vessel.route_name[0] raises IndexError on an empty route list.
get_cached_delay_raises(vessel) == vessel.route_name = <<>>

get_cached_delay(cache, vessel) ==
    LET route == vessel.route_name[1]
    IN IF route \in DOMAIN cache
       THEN IF vessel.vessel_position_num \in DOMAIN cache[route]
            THEN Some(cache[route][vessel.vessel_position_num])
            ELSE None
       ELSE None

\* lookup(route_key, vessel_slot) on the cache, for stating properties.
Cached(cache, route, slot) ==
    IF route \in DOMAIN cache /\ slot \in DOMAIN cache[route]
    THEN Some(cache[route][slot]) ELSE None

\* ------------------------------------------------------------- resolver
observed_delay(v) ==
    IF v.scheduled_departure # None /\ v.left_dock # None
    THEN Some(Val(v.left_dock) - Val(v.scheduled_departure))
    ELSE None

\* ------------------------------------------------------------- matcher
\* Every live vessel taken for a vessel of the route.
get_route_vessels_unfiltered(vessels, route_config) == vessels

get_route_vessels(vessels, route_config) ==
    SelectSeq(vessels, LAMBDA v : InSeq(route_config.route_name, v.route_name))

DirectionalSailing(ds, sailing) ==
    [departing_terminal_id |-> ds.departing_terminal_id,
     arriving_terminal_id |-> ds.arriving_terminal_id,
     scheduled_departure |-> sailing.scheduled_departure,
     vessel_position_num |-> sailing.vessel_position_num,
     delay_in_minutes |-> None]

RECURSIVE group_by_boat(_, _, _)
group_by_boat(by_boat, ds, times) ==
    IF times = <<>> THEN by_boat
    ELSE group_by_boat(
             DictAppend(by_boat, Head(times).vessel_position_num,
                        DirectionalSailing(ds, Head(times))),
             ds, Tail(times))

RECURSIVE group_schedules(_, _)
group_schedules(by_boat, schedules) ==
    IF schedules = <<>> THEN by_boat
    ELSE group_schedules(
             group_by_boat(by_boat, Head(schedules), Head(schedules).times),
             Tail(schedules))

get_route_schedule_by_boat_raises(schedules) ==
    LET g == group_schedules(<<>>, schedules)
    IN \E k \in 1..Len(g) : SortRaises(g[k].val)

\* The groups left in the order the schedule gave their departures.
get_route_schedule_by_boat_unsorted(schedules) == group_schedules(<<>>, schedules)

get_route_schedule_by_boat(schedules) ==
    LET g == group_schedules(<<>>, schedules)
    IN [k \in 1..Len(g) |-> [g[k] EXCEPT !.val = SortedByDeparture(@)]]

\* {vessel.vessel_position_num: vessel for vessel in route_vessels}.get(slot):
\* the last snapshot of a slot wins.
current_vessel(route_vessels, slot) ==
    LET ks == {k \in 1..Len(route_vessels) :
                  route_vessels[k].vessel_position_num = slot}
    IN IF ks = {} THEN None
       ELSE Some(route_vessels[CHOOSE k \in ks : \A j \in ks : j <= k])

\* datetime > None, datetime >= None and None > datetime raise TypeError.
next_sailings_raises(sailings, cv) ==
    \/ \E k \in 1..Len(sailings) : sailings[k].scheduled_departure = None
    \/ sailings # <<>> /\ cv # None /\ Val(cv).scheduled_departure = None

\* The at-dock branch with > for >=, the underway branch with >= for >, the
\* branch without a snapshot with >= for >.
next_sailings_dock_strict(sailings, cv, now) ==
    IF cv = None
    THEN SelectSeq(sailings, LAMBDA s : Val(s.scheduled_departure) > now)
    ELSE SelectSeq(sailings, LAMBDA s :
             Val(s.scheduled_departure) > Val(Val(cv).scheduled_departure))

next_sailings_underway_inclusive(sailings, cv, now) ==
    IF cv = None
    THEN SelectSeq(sailings, LAMBDA s : Val(s.scheduled_departure) > now)
    ELSE SelectSeq(sailings, LAMBDA s :
             Val(s.scheduled_departure) >= Val(Val(cv).scheduled_departure))

next_sailings_now_inclusive(sailings, cv, now) ==
    IF cv = None
    THEN SelectSeq(sailings, LAMBDA s : Val(s.scheduled_departure) >= now)
    ELSE IF Val(cv).at_dock
    THEN SelectSeq(sailings, LAMBDA s :
             Val(s.scheduled_departure) >= Val(Val(cv).scheduled_departure))
    ELSE SelectSeq(sailings, LAMBDA s :
             Val(s.scheduled_departure) > Val(Val(cv).scheduled_departure))

next_sailings(sailings, cv, now) ==
    IF cv = None
    THEN SelectSeq(sailings, LAMBDA s : Val(s.scheduled_departure) > now)
    ELSE IF Val(cv).at_dock
    THEN SelectSeq(sailings, LAMBDA s :
             Val(s.scheduled_departure) >= Val(Val(cv).scheduled_departure))
    ELSE SelectSeq(sailings, LAMBDA s :
             Val(s.scheduled_departure) > Val(Val(cv).scheduled_departure))

get_next_sailings_by_boat_raises(by_boat, route_vessels) ==
    \E k \in 1..Len(by_boat) :
        next_sailings_raises(by_boat[k].val, current_vessel(route_vessels, by_boat[k].key))

get_next_sailings_by_boat(by_boat, route_vessels, now) ==
    [k \in 1..Len(by_boat) |->
        [key |-> by_boat[k].key,
         val |-> next_sailings(by_boat[k].val,
                               current_vessel(route_vessels, by_boat[k].key), now)]]

\* ------------------------------------------------------------- aggregator
to_route_sailing(s) ==
    [scheduled_departure |-> s.scheduled_departure,
     delay_in_minutes |-> s.delay_in_minutes,
     vessel_position_num |-> s.vessel_position_num]

RECURSIVE group_by_direction(_, _)
group_by_direction(groups, sailings) ==
    IF sailings = <<>> THEN groups
    ELSE group_by_direction(
             DictAppend(groups,
                        <<Head(sailings).departing_terminal_id,
                          Head(sailings).arriving_terminal_id>>,
                        Head(sailings)),
             Tail(sailings))

RECURSIVE direction_groups(_, _)
direction_groups(groups, by_boat) ==
    IF by_boat = <<>> THEN groups
    ELSE direction_groups(group_by_direction(groups, Head(by_boat).val), Tail(by_boat))

\* A record for each direction of the route, with or without sailings.
get_directional_schedules_every_direction(by_boat) ==
    LET g == direction_groups(<< [key |-> <<3, 7>>, val |-> <<>>],
                                 [key |-> <<7, 3>>, val |-> <<>>] >>, by_boat)
    IN [k \in 1..Len(g) |->
           [departing_terminal_id |-> g[k].key[1],
            arriving_terminal_id |-> g[k].key[2],
            times |-> SortedByDeparture(
                          [j \in 1..Len(g[k].val) |-> to_route_sailing(g[k].val[j])])]]

\* Each direction cut down to its next sailing.
get_directional_schedules_next_only(by_boat) ==
    LET g == direction_groups(<<>>, by_boat)
    IN [k \in 1..Len(g) |->
           [departing_terminal_id |-> g[k].key[1],
            arriving_terminal_id |-> g[k].key[2],
            times |-> SubSeq(SortedByDeparture(
                          [j \in 1..Len(g[k].val) |-> to_route_sailing(g[k].val[j])]), 1, 1)]]

get_directional_schedules(by_boat) ==
    LET g == direction_groups(<<>>, by_boat)
    IN [k \in 1..Len(g) |->
           [departing_terminal_id |-> g[k].key[1],
            arriving_terminal_id |-> g[k].key[2],
            times |-> SortedByDeparture(
                          [j \in 1..Len(g[k].val) |-> to_route_sailing(g[k].val[j])])]]

\* get_next_sailings_for_route on the schedule `sched` that get_schedule_today
\* returned, the clock reading `now`, when nothing raises.
get_next_sailings_for_route(vessels, config, sched, now) ==
    LET route_vessels == get_route_vessels(vessels, config)
        by_boat == get_route_schedule_by_boat(sched)
    IN get_directional_schedules(get_next_sailings_by_boat(by_boat, route_vessels, now))

\* ------------------------------------------------------------- inputs
\* Today's schedule of the route: its two directions, each with its departures.
Schedules(departures, n) ==
    {<< [departing_terminal_id |-> 3, arriving_terminal_id |-> 7, times |-> a],
        [departing_terminal_id |-> 7, arriving_terminal_id |-> 3, times |-> b] >> :
        a \in SeqsUpTo(departures, n), b \in SeqsUpTo(departures, n)}

\* The schedules a poll of the whole engine draws from, and the richer ones
\* (every departure with its instant) the route computation alone is run on.
PolledSchedules == Schedules(RawDeparture, MaxPolledTimes)
TimedDeparture == {d \in RawDeparture : d.scheduled_departure # None}
RouteSchedules == Schedules(TimedDeparture, MaxTimes)

\* Snapshots as get_vessels_with_delays hands them on when nothing was observed
\* and nothing cached (a snapshot with an empty route list does not get here),
\* each with its scheduled departure: a vessel of another route, and one that
\* serves this route as its second.
LiveVessel ==
    {v \in Vessel :
        /\ v.left_dock = None
        /\ v.scheduled_departure # None
        /\ v.route_name \in {<<"ed-king">>, <<"ed-king", "sea-bi">>}}

\* ------------------------------------------------------------- state
VARIABLES
    CACHED_DELAYS,          \* next_sailings.py: the module-level delay cache
    pc,                     \* where the run of get_next_sailings stands
    vessel_positions,       \* get_next_sailings: the polled snapshots
    i,                      \* get_vessels_with_delays: snapshots resolved so far
    clock,                  \* datetime.now() as the run reads it
    route_schedule,         \* get_next_sailings_for_route: the fetched schedule
    schedule_by_boat,       \* get_next_sailings_for_route: departures by slot
    next_sailings_by_boat,  \* get_next_sailings_for_route: upcoming by slot
    all_next_sailings,      \* get_next_sailings: the result so far
    error,                  \* the exception the run raised, "" when none
    cycles,                 \* runs started
    calls,                  \* the calls the run has made so far, in order
    caller,                 \* main.py: the coroutine inside get_next_sailings, "none" when none
    _sailings_cache,        \* main.py: the published snapshot, None before the first
    updater,                \* main.py: the periodic task: "sleeping", "running", "done"
    response,               \* main.py: what the handler that just ran returned
    value,                  \* the wire form of a timestamp field
    parsed                  \* what parse_ms_date made of it

vars ==
    <<CACHED_DELAYS, pc, vessel_positions, i, clock, route_schedule,
      schedule_by_boat, next_sailings_by_boat, all_next_sailings, error, cycles,
      calls, caller, _sailings_cache, updater, response, value, parsed>>

\* What the engine never touches: the process around it and the wire.
process_vars == <<caller, _sailings_cache, updater, response>>
wire_vars == <<value, parsed>>

route_locals == <<route_schedule, schedule_by_boat, next_sailings_by_boat>>

\* An entry of `calls`: the function called, and whether the call raised.
Did(name) == [call |-> name, raised |-> FALSE]
Failed(name) == [call |-> name, raised |-> TRUE]

AtRest == pc \in {"idle", "returned", "raised"}

Init ==
    /\ CACHED_DELAYS = <<>>
    /\ pc = "idle"
    /\ vessel_positions = <<>>
    /\ i = 0
    /\ clock = 0
    /\ route_schedule = <<>>
    /\ schedule_by_boat = <<>>
    /\ next_sailings_by_boat = <<>>
    /\ all_next_sailings = <<>>
    /\ error = ""
    /\ cycles = 0
    /\ calls = <<>>
    /\ caller = "none"
    /\ _sailings_cache = None
    /\ updater = "sleeping"
    /\ response = None
    /\ value = None
    /\ parsed = None

\* The delay cache made anew for each run.
StartRun_new_cache ==
    /\ AtRest
    /\ cycles < MaxCycles
    /\ cycles' = cycles + 1
    /\ i' = 0
    /\ clock' = 0
    /\ route_schedule' = <<>>
    /\ schedule_by_boat' = <<>>
    /\ next_sailings_by_boat' = <<>>
    /\ all_next_sailings' = <<>>
    /\ CACHED_DELAYS' = <<>>
    /\ UNCHANGED <<process_vars, wire_vars>>

\* A run starts: get_vessels_with_delays calls get_vessel_positions.
StartRun ==
    /\ AtRest
    /\ cycles < MaxCycles
    /\ cycles' = cycles + 1
    /\ i' = 0
    /\ clock' = 0
    /\ route_schedule' = <<>>
    /\ schedule_by_boat' = <<>>
    /\ next_sailings_by_boat' = <<>>
    /\ all_next_sailings' = <<>>
    /\ UNCHANGED <<CACHED_DELAYS, process_vars, wire_vars>>

FetchPositions ==
    /\ StartRun
    /\ \E vs \in SeqsUpTo(Vessel, MaxVessels) :
          /\ vessel_positions' = vs
          /\ pc' = IF vs = <<>> THEN "routes" ELSE "resolve"
    /\ error' = ""
    /\ calls' = <<Did("get_vessel_positions")>>

\* The failed position fetch taken for an empty list of vessels.
FetchPositionsFails_swallowed ==
    /\ StartRun
    /\ vessel_positions' = <<>>
    /\ pc' = "routes"
    /\ error' = ""
    /\ calls' = <<Failed("get_vessel_positions")>>

\* get_vessel_positions raises: no credential, HTTP error, network failure.
FetchPositionsFails ==
    /\ StartRun
    /\ vessel_positions' = <<>>
    /\ pc' = "raised"
    /\ error' = "Exception"
    /\ calls' = <<Failed("get_vessel_positions")>>

\* One turn of the loop of get_vessels_with_delays.
AfterResolve == IF i + 1 = Len(vessel_positions) THEN "routes" ELSE "resolve"

ResolveFresh ==
    /\ pc = "resolve"
    /\ LET v == vessel_positions[i + 1]
           vessel_delay == observed_delay(v)
       IN /\ PyTruthy(vessel_delay)
          /\ CACHED_DELAYS' = update_cached_delay(CACHED_DELAYS, v, Val(vessel_delay))
          /\ vessel_positions' = [vessel_positions EXCEPT ![i + 1].delay = vessel_delay]
    /\ i' = i + 1
    /\ pc' = AfterResolve
    /\ calls' = Append(calls, Did("update_cached_delay"))
    /\ UNCHANGED <<clock, route_locals, all_next_sailings, error, cycles,
                   process_vars, wire_vars>>

ResolveCached ==
    /\ pc = "resolve"
    /\ LET v == vessel_positions[i + 1]
       IN /\ ~PyTruthy(observed_delay(v))
          /\ ~get_cached_delay_raises(v)
          /\ vessel_positions' =
                 [vessel_positions EXCEPT ![i + 1].delay = get_cached_delay(CACHED_DELAYS, v)]
    /\ i' = i + 1
    /\ pc' = AfterResolve
    /\ calls' = Append(calls, Did("get_cached_delay"))
    /\ UNCHANGED <<CACHED_DELAYS, clock, route_locals, all_next_sailings, error, cycles,
                   process_vars, wire_vars>>

ResolveRaises ==
    /\ pc = "resolve"
    /\ LET v == vessel_positions[i + 1]
       IN /\ ~PyTruthy(observed_delay(v))
          /\ get_cached_delay_raises(v)
    /\ pc' = "raised"
    /\ error' = "IndexError"
    /\ calls' = Append(calls, Failed("get_cached_delay"))
    /\ UNCHANGED <<CACHED_DELAYS, vessel_positions, i, clock, route_locals,
                   all_next_sailings, cycles, process_vars, wire_vars>>

\* One turn of the loop of get_next_sailings: get_next_sailings_for_route on the
\* schedule `sched` that get_schedule_today returned, the clock reading `now`.
route_config == ROUTES[Len(all_next_sailings) + 1]

RouteRaises(sched) ==
    IF get_route_schedule_by_boat_raises(sched) THEN TRUE
    ELSE get_next_sailings_by_boat_raises(
             get_route_schedule_by_boat(sched),
             get_route_vessels(vessel_positions, route_config))

RouteReturns(sched, now) ==
    /\ ~RouteRaises(sched)
    /\ route_schedule' = sched
    /\ clock' = now
    /\ schedule_by_boat' = get_route_schedule_by_boat(sched)
    /\ next_sailings_by_boat' =
           get_next_sailings_by_boat(
               schedule_by_boat', get_route_vessels(vessel_positions, route_config), now)
    /\ all_next_sailings' =
           Append(all_next_sailings,
                  [route_name |-> <<route_config.route_name>>,
                   route_id |-> route_config.route_id,
                   schedules |-> get_directional_schedules(next_sailings_by_boat')])
    /\ pc' = IF Len(all_next_sailings') = Len(ROUTES) THEN "returned" ELSE "routes"
    /\ calls' = Append(calls, Did("get_schedule_today"))
    /\ UNCHANGED <<CACHED_DELAYS, vessel_positions, i, error, cycles,
                   process_vars, wire_vars>>

RouteTypeError(sched, now) ==
    /\ RouteRaises(sched)
    /\ route_schedule' = sched
    /\ clock' = now
    /\ pc' = "raised"
    /\ error' = "TypeError"
    /\ calls' = Append(calls, Did("get_schedule_today"))
    /\ UNCHANGED <<CACHED_DELAYS, vessel_positions, i, schedule_by_boat,
                   next_sailings_by_boat, all_next_sailings, cycles,
                   process_vars, wire_vars>>

NextSailingsForRoute ==
    /\ pc = "routes"
    /\ \E sched \in PolledSchedules, now \in Instants : RouteReturns(sched, now)

NextSailingsForRouteRaises ==
    /\ pc = "routes"
    /\ \E sched \in PolledSchedules, now \in Instants : RouteTypeError(sched, now)

\* The failed schedule fetch turned into a route without sailings.
FetchScheduleFails_isolated ==
    /\ pc = "routes"
    /\ all_next_sailings' =
           Append(all_next_sailings,
                  [route_name |-> <<route_config.route_name>>,
                   route_id |-> route_config.route_id,
                   schedules |-> <<>>])
    /\ pc' = IF Len(all_next_sailings') = Len(ROUTES) THEN "returned" ELSE "routes"
    /\ calls' = Append(calls, Failed("get_schedule_today"))
    /\ UNCHANGED <<CACHED_DELAYS, vessel_positions, i, clock, route_locals,
                   error, cycles, process_vars, wire_vars>>

\* get_schedule_today raises: HTTP error, malformed payload.
FetchScheduleFails ==
    /\ pc = "routes"
    /\ pc' = "raised"
    /\ error' = "Exception"
    /\ calls' = Append(calls, Failed("get_schedule_today"))
    /\ UNCHANGED <<CACHED_DELAYS, vessel_positions, i, clock, route_locals,
                   all_next_sailings, cycles, process_vars, wire_vars>>

Next ==
    \/ FetchPositions
    \/ FetchPositionsFails
    \/ ResolveFresh
    \/ ResolveCached
    \/ ResolveRaises
    \/ NextSailingsForRoute
    \/ NextSailingsForRouteRaises
    \/ FetchScheduleFails

Spec == Init /\ [][Next]_vars

\* ------------------------------------------------------------- the route alone
\* get_next_sailings_for_route as a function of its inputs: the resolved
\* snapshots, then the fetched schedule and the clock reading.
InitRoute ==
    /\ CACHED_DELAYS = <<>>
    /\ pc = "routes"
    /\ vessel_positions \in SeqsUpTo(LiveVessel, MaxLive)
    /\ i = Len(vessel_positions)
    /\ clock = 0
    /\ route_schedule = <<>>
    /\ schedule_by_boat = <<>>
    /\ next_sailings_by_boat = <<>>
    /\ all_next_sailings = <<>>
    /\ error = ""
    /\ cycles = 1
    /\ calls = <<Did("get_vessel_positions")>>
                \o [k \in 1..Len(vessel_positions) |-> Did("get_cached_delay")]
    /\ caller = "none"
    /\ _sailings_cache = None
    /\ updater = "sleeping"
    /\ response = None
    /\ value = None
    /\ parsed = None

ApplyRoute ==
    /\ pc = "routes"
    /\ \E sched \in RouteSchedules, now \in Instants : RouteReturns(sched, now)

NextRoute == ApplyRoute

SpecRoute == InitRoute /\ [][NextRoute]_vars

\* ------------------------------------------------------------- the process
\* main.py on its asyncio event loop: the periodic task update_sailings_cache
\* and the request handlers.  A coroutine keeps the loop from the moment it is
\* resumed until it awaits or returns; the one await of the program is the
\* sleep of the periodic task.  `caller` is the coroutine that is inside
\* get_next_sailings, and the loop is free when it is "none".
MaxShown == 3

\* Snapshots and schedules of the one slot the process is run on.
ProcessVessel ==
    {v \in Vessel :
        /\ v.vessel_position_num = 1
        /\ v.at_dock
        /\ v.route_name \in {<<>>, <<"sea-bi">>}}

ProcessDeparture == {d \in RawDeparture : d.vessel_position_num = 1}
ProcessSchedules == Schedules(ProcessDeparture, MaxPolledTimes)

InitProcess == Init

process_sailing(sailing) ==
    [scheduled_time |-> sailing.scheduled_departure,
     delay_in_minutes |-> sailing.delay_in_minutes,
     has_delay |-> PyTruthy(sailing.delay_in_minutes)]

\* route_name stands for " - ".join(route.route_name).
process_routes_for_display(routes_data) ==
    [r \in 1..Len(routes_data) |->
        [route_name |-> routes_data[r].route_name,
         schedules |->
             [d \in 1..Len(routes_data[r].schedules) |->
                 LET schedule == routes_data[r].schedules[d]
                     shown == IF Len(schedule.times) < MaxShown
                              THEN Len(schedule.times) ELSE MaxShown
                 IN [departing_terminal_id |-> schedule.departing_terminal_id,
                     arriving_terminal_id |-> schedule.arriving_terminal_id,
                     sailings |-> [j \in 1..shown |-> process_sailing(schedule.times[j])]]]]]

\* get_next_sailings is called: a new frame.
Call(who) ==
    /\ caller' = who
    /\ pc' = "called"
    /\ vessel_positions' = <<>>
    /\ i' = 0
    /\ clock' = 0
    /\ route_schedule' = <<>>
    /\ schedule_by_boat' = <<>>
    /\ next_sailings_by_boat' = <<>>
    /\ all_next_sailings' = <<>>
    /\ error' = ""
    /\ calls' = <<>>
    /\ response' = None
    /\ UNCHANGED <<CACHED_DELAYS, cycles, _sailings_cache, wire_vars>>

\* get_next_sailings has returned or raised and its caller has gone on: the
\* frame is gone and the loop is free again.
Return ==
    /\ caller' = "none"
    /\ pc' = "idle"
    /\ vessel_positions' = <<>>
    /\ i' = 0
    /\ clock' = 0
    /\ route_schedule' = <<>>
    /\ schedule_by_boat' = <<>>
    /\ next_sailings_by_boat' = <<>>
    /\ all_next_sailings' = <<>>
    /\ error' = ""
    /\ calls' = <<>>
    /\ UNCHANGED <<CACHED_DELAYS, cycles, wire_vars>>

\* update_sailings_cache: the sleep is over, the loop is free, the task is
\* resumed and calls get_next_sailings.
UpdaterCalls ==
    /\ updater = "sleeping"
    /\ caller = "none"
    /\ updater' = "running"
    /\ Call("update_sailings_cache")

\* get_vessels_with_delays inside the process: get_vessel_positions returns.
PollPositions ==
    /\ pc = "called"
    /\ \E vs \in SeqsUpTo(ProcessVessel, MaxVessels) :
          /\ vessel_positions' = vs
          /\ pc' = IF vs = <<>> THEN "routes" ELSE "resolve"
    /\ calls' = <<Did("get_vessel_positions")>>
    /\ UNCHANGED <<CACHED_DELAYS, i, clock, route_locals, all_next_sailings, error,
                   cycles, process_vars, wire_vars>>

PollPositionsFails ==
    /\ pc = "called"
    /\ pc' = "raised"
    /\ error' = "Exception"
    /\ calls' = <<Failed("get_vessel_positions")>>
    /\ UNCHANGED <<CACHED_DELAYS, vessel_positions, i, clock, route_locals,
                   all_next_sailings, cycles, process_vars, wire_vars>>

ProcessRoute ==
    /\ pc = "routes"
    /\ \E sched \in ProcessSchedules, now \in Instants : RouteReturns(sched, now)

ProcessRouteRaises ==
    /\ pc = "routes"
    /\ \E sched \in ProcessSchedules, now \in Instants : RouteTypeError(sched, now)

\* The failed cycle drops the snapshot instead of keeping it.
UpdaterLogsError_clears ==
    /\ caller = "update_sailings_cache"
    /\ pc = "raised"
    /\ _sailings_cache' = None
    /\ updater' = "sleeping"
    /\ response' = None
    /\ Return

\* update_sailings_cache, the try branch: the snapshot is published.
UpdaterPublishes ==
    /\ caller = "update_sailings_cache"
    /\ pc = "returned"
    /\ _sailings_cache' =
           Some([routes |-> process_routes_for_display(all_next_sailings)])
    /\ updater' = "sleeping"
    /\ response' = None
    /\ Return

\* update_sailings_cache, the except branch: the error is logged.
UpdaterLogsError ==
    /\ caller = "update_sailings_cache"
    /\ pc = "raised"
    /\ updater' = "sleeping"
    /\ UNCHANGED <<_sailings_cache, response>>
    /\ Return

\* The handler run off the event loop, in a worker thread: it does not wait
\* for the loop to be free.
ReaderInitialFetch_in_thread ==
    /\ _sailings_cache = None
    /\ UNCHANGED updater
    /\ Call("get_next_sailings_html")

\* get_next_sailings_html with no snapshot yet: it calls get_next_sailings itself.
ReaderInitialFetch ==
    /\ caller = "none"
    /\ _sailings_cache = None
    /\ UNCHANGED updater
    /\ Call("get_next_sailings_html")

\* The reader's initial fetch kept as the snapshot.
ReaderReturnsFetched_publishes ==
    /\ caller = "get_next_sailings_html"
    /\ pc = "returned"
    /\ response' = Some([template |-> "next_sailings_fragment.html",
                         routes |-> process_routes_for_display(all_next_sailings)])
    /\ _sailings_cache' =
           Some([routes |-> process_routes_for_display(all_next_sailings)])
    /\ UNCHANGED updater
    /\ Return

ReaderReturnsFetched ==
    /\ caller = "get_next_sailings_html"
    /\ pc = "returned"
    /\ response' = Some([template |-> "next_sailings_fragment.html",
                         routes |-> process_routes_for_display(all_next_sailings)])
    /\ UNCHANGED <<_sailings_cache, updater>>
    /\ Return

ReaderReturnsError ==
    /\ caller = "get_next_sailings_html"
    /\ pc = "raised"
    /\ response' = Some([template |-> "error_fragment.html", error |-> error])
    /\ UNCHANGED <<_sailings_cache, updater>>
    /\ Return

\* get_next_sailings_html with a snapshot: served from it.
ReaderServesCache ==
    /\ caller = "none"
    /\ _sailings_cache # None
    /\ response' = Some([template |-> "next_sailings_fragment.html",
                         routes |-> Val(_sailings_cache).routes])
    /\ UNCHANGED <<CACHED_DELAYS, pc, vessel_positions, i, clock, route_locals,
                   all_next_sailings, error, cycles, calls, caller, _sailings_cache,
                   updater, wire_vars>>

debug_cache_status ==
    /\ caller = "none"
    /\ response' =
           IF _sailings_cache = None
           THEN Some([status |-> "Cache not initialized"])
           ELSE Some([status |-> "Cache active",
                      routes_count |-> Len(Val(_sailings_cache).routes),
                      cached_delays |-> CACHED_DELAYS])
    /\ UNCHANGED <<CACHED_DELAYS, pc, vessel_positions, i, clock, route_locals,
                   all_next_sailings, error, cycles, calls, caller, _sailings_cache,
                   updater, wire_vars>>

\* What the coroutine on the loop does next: the engine's steps and its return.
Run ==
    \/ PollPositions
    \/ PollPositionsFails
    \/ ResolveFresh
    \/ ResolveCached
    \/ ResolveRaises
    \/ ProcessRoute
    \/ ProcessRouteRaises
    \/ FetchScheduleFails
    \/ UpdaterPublishes
    \/ UpdaterLogsError
    \/ ReaderReturnsFetched
    \/ ReaderReturnsError

NextProcess ==
    \/ UpdaterCalls
    \/ ReaderInitialFetch
    \/ ReaderServesCache
    \/ debug_cache_status
    \/ Run

SpecProcess == InitProcess /\ [][NextProcess]_vars

\* The code on the loop runs on, a fetch returns or raises, and the loop's
\* ready queue is first in, first out: the task whose sleep is over is resumed.
SpecProcessFair == SpecProcess /\ WF_vars(Run) /\ SF_vars(UpdaterCalls)

\* ------------------------------------------------------------- the cache alone
\* update_cached_delay as a function of its arguments, applied again and again:
\* vessel_positions keeps the vessels it was given, each with the delay given.
Delays == {a - b : a \in Times, b \in Times}

RecordedVessel ==
    {v \in Vessel :
        /\ ~v.at_dock
        /\ v.left_dock = None
        /\ v.scheduled_departure = None}

InitCache == Init

Record ==
    /\ Len(vessel_positions) < MaxRecords
    /\ \E vessel \in RecordedVessel, delay \in Delays :
          /\ CACHED_DELAYS' = update_cached_delay(CACHED_DELAYS, vessel, delay)
          /\ vessel_positions' =
                 Append(vessel_positions, [vessel EXCEPT !.delay = Some(delay)])
    /\ UNCHANGED <<pc, i, clock, route_locals, all_next_sailings, error, cycles,
                   calls, process_vars, wire_vars>>

NextCache == Record

SpecCache == InitCache /\ [][NextCache]_vars

\* ------------------------------------------------------------- the wire
\* A timestamp field of the position source's JSON, before validation: null, a
\* text, or a value that is a datetime already.  A text is a sequence of
\* lexemes: the opening "/Date(", a digit, a UTC offset (sign and four digits),
\* the closing ")/", and "x" for any other character.  A datetime is the
\* number of milliseconds since the epoch.
Lexemes == {"/Date(", "1", "2", "-0700", ")/", "x"}
Digits == {"1", "2"}

Null == [kind |-> "null", text |-> <<>>, instant |-> 0]
Str(text) == [kind |-> "str", text |-> text, instant |-> 0]
Datetime(instant) == [kind |-> "datetime", text |-> <<>>, instant |-> instant]

WireValues ==
    {Null} \cup {Str(text) : text \in SeqsUpTo(Lexemes, MaxText)}
           \cup {Datetime(t) : t \in Times}

RECURSIVE int(_)
int(digits) ==
    IF digits = <<>> THEN 0
    ELSE 10 * int(Front(digits)) + (IF Last(digits) = "1" THEN 1 ELSE 2)

\* re.match(r"/Date\((\d+)([-+]\d{4})?\)/", text): anchored at the start only;
\* group(1) is the longest run of digits after the opening.
group1(text) ==
    LET n == CHOOSE n \in 0..Len(text) :
                 /\ \A k \in 2..(n + 1) : k <= Len(text) /\ text[k] \in Digits
                 /\ (n + 2 <= Len(text) => text[n + 2] \notin Digits)
    IN SubSeq(text, 2, n + 1)

re_match(text) ==
    /\ text # <<>>
    /\ text[1] = "/Date("
    /\ group1(text) # <<>>
    /\ LET rest == SubSeq(text, Len(group1(text)) + 2, Len(text))
       IN /\ rest # <<>>
          /\ \/ rest[1] = ")/"
             \/ rest[1] = "-0700" /\ Len(rest) >= 2 /\ rest[2] = ")/"

\* The outcome of parse_ms_date: what it returns, or the exception it raises
\* (re.match on a value that is no string raises TypeError).
parse_ms_date(v) ==
    IF v.kind = "null" THEN [raises |-> "", result |-> Null]
    ELSE IF v.kind # "str" THEN [raises |-> "TypeError", result |-> Null]
    ELSE IF re_match(v.text)
    THEN [raises |-> "", result |-> Datetime(int(group1(v.text)))]
    ELSE [raises |-> "", result |-> v]

\* The field's own validation, Optional[datetime], of what the validator
\* returned: None and a datetime pass, a text of digits is taken as seconds
\* since the epoch, any other text of these lexemes is no date: ValidationError.
validate_datetime(v) ==
    IF v.kind = "null" THEN [raises |-> "", result |-> None]
    ELSE IF v.kind = "datetime" THEN [raises |-> "", result |-> Some(v.instant)]
    ELSE IF v.text # <<>> /\ \A k \in 1..Len(v.text) : v.text[k] \in Digits
    THEN [raises |-> "", result |-> Some(1000 * int(v.text))]
    ELSE [raises |-> "ValidationError", result |-> None]

\* Vessel(**ferry) for the one vessel in service of the payload, its
\* ScheduledDeparture the wire value.
WireVessel(scheduled_departure) ==
    [vessel_position_num |-> 1, route_name |-> <<"sea-bi">>, at_dock |-> TRUE,
     left_dock |-> None, scheduled_departure |-> scheduled_departure, delay |-> None]

InitWire ==
    /\ CACHED_DELAYS = <<>>
    /\ pc = "idle"
    /\ vessel_positions = <<>>
    /\ i = 0
    /\ clock = 0
    /\ route_schedule = <<>>
    /\ schedule_by_boat = <<>>
    /\ next_sailings_by_boat = <<>>
    /\ all_next_sailings = <<>>
    /\ error = ""
    /\ cycles = 0
    /\ calls = <<>>
    /\ caller = "none"
    /\ _sailings_cache = None
    /\ updater = "sleeping"
    /\ response = None
    /\ value \in WireValues
    /\ parsed = None

\* get_vessel_positions on that payload: the list of vessels, or the exception
\* of the validator or of the validation.
FetchPositionsWire ==
    /\ pc = "idle"
    /\ parsed = None
    /\ LET before == parse_ms_date(value)
           field == IF before.raises = "" THEN validate_datetime(before.result)
                    ELSE [raises |-> before.raises, result |-> None]
       IN /\ parsed' = Some(before)
          /\ IF field.raises = ""
             THEN /\ vessel_positions' = <<WireVessel(field.result)>>
                  /\ pc' = "resolve"
                  /\ error' = ""
                  /\ calls' = <<Did("get_vessel_positions")>>
             ELSE /\ vessel_positions' = <<>>
                  /\ pc' = "raised"
                  /\ error' = field.raises
                  /\ calls' = <<Failed("get_vessel_positions")>>
    /\ UNCHANGED <<CACHED_DELAYS, i, clock, route_locals, all_next_sailings, cycles,
                   process_vars, value>>

NextWire ==
    \/ FetchPositionsWire
    \/ ResolveCached
    \/ NextSailingsForRoute
    \/ NextSailingsForRouteRaises
    \/ FetchScheduleFails

SpecWire == InitWire /\ [][NextWire]_vars

\* ------------------------------------------------------------- properties
\* The snapshot the loop of get_vessels_with_delays is about to process, and
\* whether it carries a fresh observation: both instants present.
Current == vessel_positions[i + 1]
Fresh(v) == v.left_dock # None /\ v.scheduled_departure # None
OnRoute(route) == {k \in 1..Len(vessel_positions) : InSeq(route, vessel_positions[k].route_name)}
OnRouteAt(route, slot) == {k \in OnRoute(route) : vessel_positions[k].vessel_position_num = slot}

\* C1: in the result of get_next_sailings, every sailing whose slot matches a
\* live snapshot on its route carries that snapshot's resolved delay.
C1_SailingsCarryDelay ==
    pc = "returned" =>
        \A r \in 1..Len(all_next_sailings) :
            \A d \in 1..Len(all_next_sailings[r].schedules) :
                LET times == all_next_sailings[r].schedules[d].times
                IN \A j \in 1..Len(times) :
                       \A k \in OnRouteAt(ROUTES[r].route_name, times[j].vessel_position_num) :
                           times[j].delay_in_minutes = vessel_positions[k].delay

\* C2: every resolved snapshot with both instants present carries
\* left-dock minus scheduled-departure exactly, zero included.
C2_DelayIsDifference ==
    \A k \in 1..Len(vessel_positions) :
        (k <= i /\ Fresh(vessel_positions[k])) =>
            vessel_positions[k].delay =
                Some(Val(vessel_positions[k].left_dock)
                     - Val(vessel_positions[k].scheduled_departure))

\* C3: processing a snapshot that misses an instant never raises and attaches
\* the cached value of (first route of its list, slot), absent when there is none.
C3_MissingResolvesFromCache ==
    [][(pc = "resolve" /\ ~Fresh(Current)) =>
          /\ pc' # "raised"
          /\ vessel_positions'[i + 1].delay =
                 IF Current.route_name = <<>> THEN None
                 ELSE Cached(CACHED_DELAYS, Current.route_name[1],
                             Current.vessel_position_num)]_vars

\* C4: a cache entry (route, slot) changes only in a step that processes a
\* snapshot with both instants present, that slot and that route in its list;
\* a snapshot without a fresh observation leaves the cache as it is; no step
\* removes an entry.
C4_CacheFrame ==
    [][/\ \A r \in RouteAbbrevs, s \in Slots :
             /\ Cached(CACHED_DELAYS', r, s) # Cached(CACHED_DELAYS, r, s) =>
                    /\ pc = "resolve"
                    /\ Fresh(Current)
                    /\ Current.vessel_position_num = s
                    /\ InSeq(r, Current.route_name)
             /\ Cached(CACHED_DELAYS, r, s) # None => Cached(CACHED_DELAYS', r, s) # None
       /\ DOMAIN CACHED_DELAYS \subseteq DOMAIN CACHED_DELAYS'
       /\ (pc = "resolve" /\ ~Fresh(Current)) => CACHED_DELAYS' = CACHED_DELAYS]_vars

\* C4 witness: a run after the first resolved a snapshot without a fresh
\* observation to a delay an earlier run had cached, the entry still in place.
C4_Witness ==
    /\ cycles = 2
    /\ i = 1
    /\ ~Fresh(vessel_positions[1])
    /\ vessel_positions[1].delay # None
    /\ vessel_positions[1].delay =
           Cached(CACHED_DELAYS, vessel_positions[1].route_name[1],
                  vessel_positions[1].vessel_position_num)

\* C5: after a snapshot with both instants present is processed, the cache
\* holds the observed delay under (r, slot) for every route r of its list.
C5_FreshIsRecorded ==
    [][(pc = "resolve" /\ Fresh(Current)) =>
          \A k \in 1..Len(Current.route_name) :
              Cached(CACHED_DELAYS', Current.route_name[k], Current.vessel_position_num)
                  = observed_delay(Current)]_vars

\* ------------------------------------------------------------- the route's result
\* The route the last turn of the loop of get_next_sailings computed, the
\* departures the fetched schedule gives slot s at instant t in direction dir,
\* and how often a list of sailings holds that departure.
LastRoute == ROUTES[Len(all_next_sailings)].route_name

Scheduled(dir, t, s) ==
    Cardinality(UNION {
        {<<c, j>> : j \in {j \in 1..Len(route_schedule[c].times) :
            /\ <<route_schedule[c].departing_terminal_id,
                 route_schedule[c].arriving_terminal_id>> = dir
            /\ route_schedule[c].times[j].scheduled_departure = Some(t)
            /\ route_schedule[c].times[j].vessel_position_num = s}} :
        c \in 1..Len(route_schedule)})

Listed(list, dir, t) ==
    Cardinality({j \in 1..Len(list) :
        /\ <<list[j].departing_terminal_id, list[j].arriving_terminal_id>> = dir
        /\ list[j].scheduled_departure = Some(t)})

HasDepartures(s) == \E dir \in Directions, t \in Times : Scheduled(dir, t, s) > 0

Ascending(list) ==
    \A j \in 1..(Len(list) - 1) :
        Val(list[j].scheduled_departure) <= Val(list[j + 1].scheduled_departure)

\* list holds exactly the departures of slot s whose instant satisfies Q.
ExactlyThose(list, s, Q(_)) ==
    /\ \A j \in 1..Len(list) :
           /\ list[j].vessel_position_num = s
           /\ <<list[j].departing_terminal_id, list[j].arriving_terminal_id>> \in Directions
           /\ list[j].scheduled_departure \in {Some(t) : t \in Times}
    /\ \A dir \in Directions, t \in Times :
           Listed(list, dir, t) = IF Q(t) THEN Scheduled(dir, t, s) ELSE 0

UpcomingOf(s) == DictGet(next_sailings_by_boat, s)

AllAtDockWith(s, T) ==
    /\ OnRouteAt(LastRoute, s) # {}
    /\ \A k \in OnRouteAt(LastRoute, s) :
           /\ vessel_positions[k].at_dock
           /\ vessel_positions[k].scheduled_departure = Some(T)

AllUnderwayWith(s, T) ==
    /\ OnRouteAt(LastRoute, s) # {}
    /\ \A k \in OnRouteAt(LastRoute, s) :
           /\ ~vessel_positions[k].at_dock
           /\ vessel_positions[k].scheduled_departure = Some(T)

\* C6: for a slot whose live snapshot on the route is at dock with scheduled
\* departure T, get_next_sailings_by_boat lists exactly the slot's scheduled
\* departures at or after T, in ascending order of scheduled time.
C6_AtDockFromT ==
    pc = "returned" =>
        \A s \in Slots, T \in Times :
            (HasDepartures(s) /\ AllAtDockWith(s, T)) =>
                /\ s \in DictKeys(next_sailings_by_boat)
                /\ ExactlyThose(UpcomingOf(s), s, LAMBDA t : t >= T)
                /\ Ascending(UpcomingOf(s))

\* C6 witness: a slot at dock with T whose schedule has a departure before T,
\* left out, and two departures, T among them, listed.
C6_Witness ==
    /\ pc = "returned"
    /\ \E s \in Slots, T \in Times :
           /\ AllAtDockWith(s, T)
           /\ \E dir \in Directions, t \in Times : t < T /\ Scheduled(dir, t, s) > 0
           /\ Len(UpcomingOf(s)) >= 2
           /\ UpcomingOf(s)[1].scheduled_departure = Some(T)

\* C7: for a slot whose live snapshot on the route is underway with scheduled
\* departure T, get_next_sailings_by_boat lists exactly the slot's scheduled
\* departures strictly after T; the departure at T is never listed.
C7_UnderwayAfterT ==
    pc = "returned" =>
        \A s \in Slots, T \in Times :
            (HasDepartures(s) /\ AllUnderwayWith(s, T)) =>
                /\ s \in DictKeys(next_sailings_by_boat)
                /\ ExactlyThose(UpcomingOf(s), s, LAMBDA t : t > T)
                /\ \A j \in 1..Len(UpcomingOf(s)) :
                       UpcomingOf(s)[j].scheduled_departure # Some(T)

\* C7 witness: a slot underway with T whose schedule has the departure at T,
\* left out, and a later one, listed.
C7_Witness ==
    /\ pc = "returned"
    /\ \E s \in Slots, T \in Times :
           /\ AllUnderwayWith(s, T)
           /\ \E dir \in Directions : Scheduled(dir, T, s) > 0
           /\ UpcomingOf(s) # <<>>

\* C8: for a slot with scheduled departures and no live snapshot among the
\* route's vessels, get_next_sailings_by_boat lists exactly the slot's
\* departures strictly after the current instant, and they carry no delay.
C8_NoSnapshotAfterNow ==
    pc = "returned" =>
        \A s \in Slots :
            (HasDepartures(s) /\ OnRouteAt(LastRoute, s) = {}) =>
                /\ s \in DictKeys(next_sailings_by_boat)
                /\ ExactlyThose(UpcomingOf(s), s, LAMBDA t : t > clock)
                /\ \A j \in 1..Len(UpcomingOf(s)) :
                       UpcomingOf(s)[j].delay_in_minutes = None

\* C8 witness: a slot that only a vessel of another route reports, with a
\* departure at the current instant, left out, and a later one, listed.
C8_Witness ==
    /\ pc = "returned"
    /\ \E s \in Slots :
           /\ OnRouteAt(LastRoute, s) = {}
           /\ \E k \in 1..Len(vessel_positions) : vessel_positions[k].vessel_position_num = s
           /\ \E dir \in Directions : Scheduled(dir, clock, s) > 0
           /\ UpcomingOf(s) # <<>>

\* The directional schedules of the result.
DirectionalSchedules ==
    {all_next_sailings[r].schedules[d] :
        <<r, d>> \in {<<r, d>> \in (1..Len(all_next_sailings)) \X (1..Cardinality(Directions)) :
                         d <= Len(all_next_sailings[r].schedules)}}

\* C9 as claimed: in every directional schedule of the result the sailings are
\* strictly ordered by scheduled departure, no two consecutive ones equal.
C9_StrictlyAscending ==
    pc = "returned" =>
        \A ds \in DirectionalSchedules :
            \A j \in 1..(Len(ds.times) - 1) :
                Val(ds.times[j].scheduled_departure) < Val(ds.times[j + 1].scheduled_departure)

\* C9 amended: in every directional schedule of the result the sailings are
\* ordered by scheduled departure ascending, equal instants side by side.
C9_Ascending ==
    pc = "returned" => \A ds \in DirectionalSchedules : Ascending(ds.times)

\* C9 witness: one direction lists two slots at the same instant, one after
\* the other; the other direction lists an earlier sailing before a later one
\* that the schedule gave in the opposite order.
C9_Witness ==
    /\ pc = "returned"
    /\ \E ds \in DirectionalSchedules :
           /\ Len(ds.times) = 2
           /\ ds.times[1].scheduled_departure = ds.times[2].scheduled_departure
           /\ ds.times[1].vessel_position_num # ds.times[2].vessel_position_num
    /\ \E ds \in DirectionalSchedules, c \in 1..Len(route_schedule) :
           /\ Len(ds.times) = 2
           /\ Len(route_schedule[c].times) = 2
           /\ route_schedule[c].departing_terminal_id = ds.departing_terminal_id
           /\ Val(ds.times[1].scheduled_departure) < Val(ds.times[2].scheduled_departure)
           /\ Val(route_schedule[c].times[1].scheduled_departure)
                  > Val(route_schedule[c].times[2].scheduled_departure)

\* C10: no directional schedule of the result has an empty list of sailings,
\* and a direction is in the result, once, exactly when some slot's upcoming
\* sailings hold one of that direction.
C10_NoEmptyDirection ==
    pc = "returned" =>
        LET schedules == all_next_sailings[Len(all_next_sailings)].schedules
            Of(dir) == {d \in 1..Len(schedules) :
                           <<schedules[d].departing_terminal_id,
                             schedules[d].arriving_terminal_id>> = dir}
        IN /\ \A d \in 1..Len(schedules) : schedules[d].times # <<>>
           /\ \A dir \in Directions :
                  /\ Cardinality(Of(dir)) <= 1
                  /\ Of(dir) # {} <=>
                         \E k \in 1..Len(next_sailings_by_boat), t \in Times :
                             Listed(next_sailings_by_boat[k].val, dir, t) > 0

\* C10 witness: one direction has scheduled departures, none of them upcoming,
\* and is not in the result; the other direction is.
C10_Witness ==
    /\ pc = "returned"
    /\ Len(all_next_sailings[1].schedules) = 1
    /\ \E s \in Slots, t \in Times :
           Scheduled(<<all_next_sailings[1].schedules[1].arriving_terminal_id,
                       all_next_sailings[1].schedules[1].departing_terminal_id>>, t, s) > 0

\* ------------------------------------------------------------- the process's claims
UpdaterFailed == caller = "update_sailings_cache" /\ pc = "raised"
UpdaterCalled == caller = "update_sailings_cache" /\ pc = "called"

\* C11: when a cycle of the periodic task has failed, the step that follows
\* leaves the published snapshot as it was, a reader is served from it once
\* the loop is free, the task never ends, and it calls the engine again.
C11_FailedCycleKeepsSnapshot ==
    /\ [][UpdaterFailed => _sailings_cache' = _sailings_cache]_vars
    /\ []((caller = "none" /\ _sailings_cache # None) => ENABLED ReaderServesCache)
    /\ [](updater # "done")
    /\ UpdaterFailed ~> UpdaterCalled

\* C11 witness: a cycle failed at its schedule fetch with a snapshot of an
\* earlier cycle in place.
C11_Witness ==
    /\ UpdaterFailed
    /\ error = "Exception"
    /\ Last(calls) = Failed("get_schedule_today")
    /\ _sailings_cache # None

\* C12: in every state of the process, the states before the first snapshot
\* and those with a cycle in progress included, no request to /next-sailings
\* is inside the engine, and a response of the handler carries the routes of
\* the published snapshot.
C12_ReaderNeverRunsEngine ==
    /\ caller # "get_next_sailings_html"
    /\ \A r \in response :
           "template" \in DOMAIN r =>
               /\ _sailings_cache # None
               /\ r.template = "next_sailings_fragment.html"
               /\ r.routes = Val(_sailings_cache).routes

\* ------------------------------------------------------------- failures of the fetches
Called(name) == {k \in 1..Len(calls) : calls[k].call = name}
Raised(name) == {k \in 1..Len(calls) : calls[k] = Failed(name)}

\* C13: a run in which a schedule fetch raised has raised to its caller and
\* returns no list, neither one with the route's schedules empty nor the
\* routes computed before it.
C13_ScheduleFailureRaises ==
    Raised("get_schedule_today") # {} =>
        /\ pc = "raised"
        /\ error = "Exception"
        /\ all_next_sailings = <<>>

\* C13 witness: the schedule fetch raised after the run had resolved a
\* snapshot of the route and written its delay.
C13_Witness ==
    /\ pc = "raised"
    /\ Raised("get_schedule_today") # {}
    /\ Called("update_cached_delay") # {}
    /\ OnRoute("sea-bi") # {}

\* C14: a run whose position fetch raised has raised to its caller with that
\* one call made: no read or write of the delay cache, no schedule fetch; the
\* step leaves the delay cache as it was.
C14_PositionFailureRaises ==
    /\ [](Raised("get_vessel_positions") # {} =>
             /\ pc = "raised"
             /\ error = "Exception"
             /\ Len(calls) = 1)
    /\ [][Raised("get_vessel_positions")' # {} => CACHED_DELAYS' = CACHED_DELAYS]_vars

\* C14 witness: the position fetch raised in a run that found the delay
\* cache filled by an earlier run.
C14_Witness ==
    /\ pc = "raised"
    /\ calls = <<Failed("get_vessel_positions")>>
    /\ CACHED_DELAYS # <<>>

\* C15: whatever debug_cache_status returns holds the whole delay cache as
\* it stands, a snapshot published or not, and the step that returns it leaves
\* the delay cache as it was.
C15_DebugReturnsDelayCache ==
    /\ [](\A r \in response :
             "status" \in DOMAIN r =>
                 /\ "cached_delays" \in DOMAIN r
                 /\ r.cached_delays = CACHED_DELAYS)
    /\ [][(\E r \in response' : "status" \in DOMAIN r) =>
              CACHED_DELAYS' = CACHED_DELAYS]_vars

\* ------------------------------------------------------------- the cache's algebra
SameKey(v, w) ==
    /\ v.vessel_position_num = w.vessel_position_num
    /\ v.route_name = w.route_name

\* C16: after update_cached_delay(vessel, delay), the lookup of (route, slot)
\* gives that delay for every route of the vessel, whatever was recorded under
\* the key before; and recording what was recorded just before leaves the
\* cache as it was.
C16_RecordIsUpsert ==
    [][LET given == Last(vessel_positions')
       IN /\ \A k \in 1..Len(given.route_name) :
                 Cached(CACHED_DELAYS', given.route_name[k], given.vessel_position_num)
                     = given.delay
          /\ (vessel_positions # <<>> /\ Last(vessel_positions) = given) =>
                 CACHED_DELAYS' = CACHED_DELAYS]_vars

\* C16 witness: two different delays recorded for one key, the lookup giving
\* the later.
C16_Witness ==
    /\ Len(vessel_positions) = 2
    /\ SameKey(vessel_positions[1], vessel_positions[2])
    /\ vessel_positions[1].delay # vessel_positions[2].delay
    /\ vessel_positions[2].route_name # <<>>
    /\ Cached(CACHED_DELAYS, vessel_positions[2].route_name[1],
              vessel_positions[2].vessel_position_num) = vessel_positions[2].delay

\* ------------------------------------------------------------- the cache's life
Keys(cache) ==
    {key \in RouteAbbrevs \X Slots : Cached(cache, key[1], key[2]) # None}

\* C17: no step of any run, one that ends in a result or one that raises,
\* takes a (route, slot) key out of the delay cache.
C17_KeysNeverShrink ==
    [][Keys(CACHED_DELAYS) \subseteq Keys(CACHED_DELAYS')]_vars

\* C17 witness: a second run returned its result with no vessel reporting,
\* the keys an earlier run recorded still in the cache.
C17_Witness ==
    /\ cycles = 2
    /\ pc = "returned"
    /\ vessel_positions = <<>>
    /\ Keys(CACHED_DELAYS) # {}

\* ------------------------------------------------------------- the wire's claims
Text(v) == v.kind = "str"
EpochForm(v) == Text(v) /\ re_match(v.text)

\* C18: a timestamp of the payload that is a text not in the epoch form does
\* not make the cycle fail: the position fetch does not raise on it.
C18_TextNeverFailsTheCycle ==
    (Text(value) /\ ~EpochForm(value)) =>
        ~(pc = "raised" /\ calls = <<Failed("get_vessel_positions")>>)

\* C19: on a value not in the epoch form, null, a text that does not match or
\* a value that is a datetime already, parse_ms_date raises nothing and
\* returns the value.
C19_PassThrough ==
    \A outcome \in parsed :
        ~EpochForm(value) => outcome.raises = "" /\ outcome.result = value

\* ------------------------------------------------------------- one run at a time
InRun == pc \notin {"idle"}

\* C20: a coroutine enters get_next_sailings only when no run is in progress,
\* the run before it having returned or raised to its caller; every step of a
\* run, its reads and writes of the delay cache among them, is a step of the
\* coroutine that entered.
C20_RunsDoNotOverlap ==
    /\ [][pc' = "called" => (caller = "none" /\ ~InRun /\ caller' # "none")]_vars
    /\ [][(InRun /\ InRun') => caller' = caller]_vars
    /\ [][CACHED_DELAYS' # CACHED_DELAYS => (InRun /\ caller' = caller)]_vars
    /\ [](InRun <=> caller # "none")

\* C20 witness: the reader's initial fetch has the loop and is about to
\* resolve its snapshots, the delay cache written by a run that ended before.
C20_Witness ==
    /\ caller = "get_next_sailings_html"
    /\ calls = <<Did("get_vessel_positions")>>
    /\ pc = "resolve"
    /\ CACHED_DELAYS # <<>>

\* ------------------------------------------------------------- the route's frame
Serves(v, route) == InSeq(route, v.route_name)
Without(s, k) == SubSeq(s, 1, k - 1) \o SubSeq(s, k + 1, Len(s))

\* C21: the result of a route is the result computed without any one live
\* vessel that does not serve the route, whatever that vessel's slot.
C21_OtherRoutesDoNotCount ==
    pc = "returned" =>
        \A k \in 1..Len(vessel_positions) :
            ~Serves(vessel_positions[k], LastRoute) =>
                all_next_sailings[Len(all_next_sailings)].schedules =
                    get_next_sailings_for_route(
                        Without(vessel_positions, k), ROUTES[Len(all_next_sailings)],
                        route_schedule, clock)

\* C21 witness: a vessel of another route reports at dock, with a scheduled
\* departure T, the slot of a departure of this route before T and after the
\* current instant; no vessel of this route has the slot; the departure is in
\* the result.
C21_Witness ==
    /\ pc = "returned"
    /\ \E k \in 1..Len(vessel_positions), dir \in Directions, t \in Times :
           LET v == vessel_positions[k]
           IN /\ ~Serves(v, LastRoute)
              /\ OnRouteAt(LastRoute, v.vessel_position_num) = {}
              /\ v.at_dock
              /\ Scheduled(dir, t, v.vessel_position_num) > 0
              /\ t > clock
              /\ t < Val(v.scheduled_departure)
              /\ \E ds \in DirectionalSchedules :
                     /\ <<ds.departing_terminal_id, ds.arriving_terminal_id>> = dir
                     /\ \E j \in 1..Len(ds.times) :
                            /\ ds.times[j].scheduled_departure = Some(t)
                            /\ ds.times[j].vessel_position_num = v.vessel_position_num

\* ------------------------------------------------------------- the groups by slot
\* How often the fetched schedule gives slot s a departure of direction dir
\* with the (optional) instant o, and how often the groups of slot s hold one.
ScheduledAs(dir, o, s) ==
    Cardinality(UNION {
        {<<c, j>> : j \in {j \in 1..Len(route_schedule[c].times) :
            /\ <<route_schedule[c].departing_terminal_id,
                 route_schedule[c].arriving_terminal_id>> = dir
            /\ route_schedule[c].times[j].scheduled_departure = o
            /\ route_schedule[c].times[j].vessel_position_num = s}} :
        c \in 1..Len(route_schedule)})

GroupedAs(dir, o, s) ==
    Cardinality(UNION {
        {<<k, j>> : j \in {j \in 1..Len(schedule_by_boat[k].val) :
            LET x == schedule_by_boat[k].val[j]
            IN /\ <<x.departing_terminal_id, x.arriving_terminal_id>> = dir
               /\ x.scheduled_departure = o
               /\ x.vessel_position_num = s}} :
        k \in {k \in 1..Len(schedule_by_boat) : schedule_by_boat[k].key = s}})

\* C22: the groups of get_route_schedule_by_boat have one key per slot that
\* has departures; a group holds departures of its own slot only; every
\* departure of the schedule, of either direction, is in the group of its slot
\* as often as the schedule gives it, under its direction's terminals; each
\* group is in ascending order of scheduled time.
C22_GroupsPartitionTheSchedule ==
    pc = "returned" =>
        /\ \A a, b \in 1..Len(schedule_by_boat) :
               a # b => schedule_by_boat[a].key # schedule_by_boat[b].key
        /\ \A k \in 1..Len(schedule_by_boat) :
               /\ schedule_by_boat[k].val # <<>>
               /\ \A j \in 1..Len(schedule_by_boat[k].val) :
                      schedule_by_boat[k].val[j].vessel_position_num = schedule_by_boat[k].key
               /\ Ascending(schedule_by_boat[k].val)
        /\ \A s \in Slots, dir \in {3, 7} \X {3, 7}, o \in Opt(Times) :
               GroupedAs(dir, o, s) = ScheduledAs(dir, o, s)

\* C22 witness: two slots have departures; the group of one holds three, of
\* both directions, that the schedule gave later instant first.
C22_Witness ==
    /\ pc = "returned"
    /\ Len(schedule_by_boat) = 2
    /\ \E k \in 1..Len(schedule_by_boat), c \in 1..Len(route_schedule) :
           LET group == schedule_by_boat[k].val
               times == route_schedule[c].times
           IN /\ Len(group) = 3
              /\ group[1].departing_terminal_id # group[3].departing_terminal_id
              /\ Len(times) = 2
              /\ times[1].vessel_position_num = schedule_by_boat[k].key
              /\ times[2].vessel_position_num = schedule_by_boat[k].key
              /\ Val(times[1].scheduled_departure) > Val(times[2].scheduled_departure)

\* ------------------------------------------------------------- the whole result
\* How often the result of the last route lists, under direction dir, a
\* sailing of slot s at instant t.
InResult(dir, t, s) ==
    LET schedules == all_next_sailings[Len(all_next_sailings)].schedules
    IN Cardinality(UNION {
           {<<d, j>> : j \in {j \in 1..Len(schedules[d].times) :
               /\ <<schedules[d].departing_terminal_id,
                    schedules[d].arriving_terminal_id>> = dir
               /\ schedules[d].times[j].scheduled_departure = Some(t)
               /\ schedules[d].times[j].vessel_position_num = s}} :
           d \in 1..Len(schedules)})

\* A departure at t is upcoming for the slot of the live snapshot v.
UpcomingFor(v, t) ==
    IF v.at_dock THEN t >= Val(v.scheduled_departure)
    ELSE t > Val(v.scheduled_departure)

\* C23: every sailing of the result is a departure of the fetched schedule,
\* under the direction the schedule gave it; and for every slot the result
\* lists the slot's departures that are upcoming, each as often as the
\* schedule gives it, and no other: upcoming by the current instant when no
\* vessel of the route reports the slot, by a live snapshot of the slot
\* otherwise.
C23_ExactlyTheQualifying ==
    pc = "returned" =>
        /\ \A ds \in DirectionalSchedules :
               \A j \in 1..Len(ds.times) :
                   /\ ds.times[j].scheduled_departure \in {Some(t) : t \in Times}
                   /\ Scheduled(<<ds.departing_terminal_id, ds.arriving_terminal_id>>,
                                Val(ds.times[j].scheduled_departure),
                                ds.times[j].vessel_position_num) > 0
        /\ \A s \in Slots :
               IF OnRouteAt(LastRoute, s) = {}
               THEN \A dir \in Directions, t \in Times :
                        InResult(dir, t, s) =
                            IF t > clock THEN Scheduled(dir, t, s) ELSE 0
               ELSE \E k \in OnRouteAt(LastRoute, s) :
                        \A dir \in Directions, t \in Times :
                            InResult(dir, t, s) =
                                IF UpcomingFor(vessel_positions[k], t)
                                THEN Scheduled(dir, t, s) ELSE 0

\* C23 witness: a direction of the result lists two sailings, of a slot with
\* a live snapshot on the route and of a slot without; a departure of the
\* schedule that is not upcoming is not in the result.
C23_Witness ==
    /\ pc = "returned"
    /\ \E ds \in DirectionalSchedules :
           /\ Len(ds.times) = 2
           /\ OnRouteAt(LastRoute, ds.times[1].vessel_position_num) = {}
           /\ OnRouteAt(LastRoute, ds.times[2].vessel_position_num) # {}
    /\ \E dir \in Directions, t \in Times, s \in Slots :
           Scheduled(dir, t, s) > 0 /\ InResult(dir, t, s) = 0

\* ------------------------------------------------------------- totality of the matcher
\* The run has fetched the route's schedule, every departure with its instant.
FetchedTimed ==
    /\ Called("get_schedule_today") # {}
    /\ Raised("get_schedule_today") = {}
    /\ \A c \in 1..Len(route_schedule) :
           \A j \in 1..Len(route_schedule[c].times) :
               route_schedule[c].times[j].scheduled_departure # None

\* C24: on a fetched schedule, whatever the live snapshots, one without a
\* scheduled departure on a slot with departures included,
\* get_next_sailings_by_boat raises nothing and its result has one key per
\* slot with scheduled departures.
C24_ByBoatIsTotal ==
    FetchedTimed =>
        /\ pc # "raised"
        /\ DictKeys(next_sailings_by_boat) = {s \in Slots : HasDepartures(s)}

\* ------------------------------------------------------------- writes before fetches
FailedAtSchedule == UpdaterFailed /\ Raised("get_schedule_today") # {}

\* C25: in a run, every write of the delay cache comes before the first
\* schedule fetch; the step after a cycle that failed at a schedule fetch
\* leaves the published snapshot as it was; and in that failed cycle the
\* delay cache holds, for every snapshot with both instants present, the
\* observed delay under every route of its list.
C25_WritesBeforeScheduleFetch ==
    /\ [](\A w \in Called("update_cached_delay"), f \in Called("get_schedule_today") :
              w < f)
    /\ [][CACHED_DELAYS' # CACHED_DELAYS => Called("get_schedule_today")' = {}]_vars
    /\ [][FailedAtSchedule => _sailings_cache' = _sailings_cache]_vars
    /\ [](FailedAtSchedule =>
              \A k \in 1..Len(vessel_positions) :
                  Fresh(vessel_positions[k]) =>
                      \A r \in 1..Len(vessel_positions[k].route_name) :
                          Cached(CACHED_DELAYS, vessel_positions[k].route_name[r],
                                 vessel_positions[k].vessel_position_num)
                              = observed_delay(vessel_positions[k]))

\* ------------------------------------------------------------- the published snapshot
\* C26: a published snapshot is never taken away; a snapshot holds one entry
\* per route of ROUTES, in their order; and _sailings_cache changes only in
\* the step of the periodic task that publishes the run it has just made:
\* no step of a reader changes it.
C26_OnlyTheUpdaterPublishes ==
    /\ [][_sailings_cache # None => _sailings_cache' # None]_vars
    /\ [](\A snapshot \in _sailings_cache :
              /\ Len(snapshot.routes) = Len(ROUTES)
              /\ \A r \in 1..Len(ROUTES) :
                     snapshot.routes[r].route_name = <<ROUTES[r].route_name>>)
    /\ [][_sailings_cache' # _sailings_cache =>
              /\ caller = "update_sailings_cache"
              /\ pc = "returned"
              /\ _sailings_cache' =
                     Some([routes |-> process_routes_for_display(all_next_sailings)])]_vars
    /\ [][caller = "get_next_sailings_html" => _sailings_cache' = _sailings_cache]_vars

\* C26 witness: with a snapshot published that lists sailings, a later cycle
\* has returned other routes data and is about to publish it.
C26_Witness ==
    /\ _sailings_cache # None
    /\ caller = "update_sailings_cache"
    /\ pc = "returned"
    /\ Val(_sailings_cache).routes[1].schedules # <<>>
    /\ Val(_sailings_cache).routes # process_routes_for_display(all_next_sailings)

====
